---- MODULE Spec2Model ----
(***************************************************************************)
(* Model of the IBM Z MCP server (index.js, listed in README.md): the      *)
(* CallToolRequestSchema handler, the lazily created Key Protect client,   *)
(* callZosConnect, and the two backends the handler talks to.              *)
(*                                                                         *)
(* JavaScript values are modelled as follows.  A scalar property is a      *)
(* string, and U stands for `undefined` (an absent property).  An object   *)
(* is a function from property names to strings.  An optional array or     *)
(* mapping is <<>> when absent and <<v>> when present.                     *)
(***************************************************************************)
EXTENDS Integers, Sequences, FiniteSets, TLC

VARIABLES
    env,               \* process.env as read at module load
    keyProtectClient,  \* the module-level `let keyProtectClient` (0 is null)
    constructed,       \* number of `new IbmKeyProtectApiV2(...)` evaluations
    keys,              \* the Key Protect instance: key id -> record
    cur,               \* the tool call in flight
    other,             \* a second tool call, in flight while `cur` is suspended
    memory             \* the wrap envelope the orchestrator holds, <<>> if none

vars == <<env, keyProtectClient, constructed, keys, cur, other, memory>>

U == "undefined"

(***************************************************************************)
(* Bounds of the model.                                                    *)
(***************************************************************************)
MaxVersion == 2      \* key versions a root key can reach by rotation

(***************************************************************************)
(* Environment                                                             *)
(***************************************************************************)
ZosUrl == "https://host:9443/zosConnect"

Env(apikey, inst, zurl, user, pass) ==
    [IBM_CLOUD_API_KEY |-> apikey, KEY_PROTECT_INSTANCE_ID |-> inst,
     KEY_PROTECT_URL |-> "https://us-south.kms.cloud.ibm.com",
     ZOS_CONNECT_URL |-> zurl, ZOS_CONNECT_USERNAME |-> user,
     ZOS_CONNECT_PASSWORD |-> pass]

Environments ==
    { Env("apikey", "inst", ZosUrl, "user", "pw"),   \* both backends
      Env("apikey", "inst", U, U, U),                \* Key Protect only
      Env(U, U, ZosUrl, U, U),                       \* z/OS Connect only
      Env("apikey", U, U, U, U),                     \* instance id unset
      Env(U, "inst", U, "user", "pw"),               \* API key and URL unset
      Env(U, U, U, U, U) }                           \* nothing

KpConfigured(e) == e.IBM_CLOUD_API_KEY # U /\ e.KEY_PROTECT_INSTANCE_ID # U
ZosConfigured(e) == e.ZOS_CONNECT_URL # U

(***************************************************************************)
(* The tool catalog (ListToolsRequestSchema handler)                       *)
(***************************************************************************)
KeyProtectTools ==
    { "key_protect_list_keys", "key_protect_create_key", "key_protect_get_key",
      "key_protect_wrap_key", "key_protect_unwrap_key", "key_protect_rotate_key",
      "key_protect_delete_key", "key_protect_get_key_policies" }

ZosConnectTools ==
    { "zos_connect_list_services", "zos_connect_get_service",
      "zos_connect_call_service", "zos_connect_list_apis", "zos_connect_health" }

ToolCatalog == KeyProtectTools \cup ZosConnectTools

\* Names outside the catalog that the orchestrator may still send.
UnknownNames == { "totally_unknown_tool", "key_protect_bogus", "zos_connect_bogus" }

\* name.startsWith(prefix), over the names of the model
KpPrefixed == KeyProtectTools \cup { "key_protect_bogus" }
ZosPrefixed == ZosConnectTools \cup { "zos_connect_bogus" }

startsWith(name, prefix) ==
    CASE prefix = "key_protect_" -> name \in KpPrefixed
      [] prefix = "zos_connect_" -> name \in ZosPrefixed
      [] OTHER -> FALSE

(***************************************************************************)
(* Values                                                                  *)
(***************************************************************************)
EmptyObj == [k \in {} |-> U]

\* JavaScript truthiness of a scalar of the model
Truthy(v) == v \notin { U, "false", "0", "" }

\* a || b
Or(a, b) == IF Truthy(a) THEN a ELSE b

\* JSON.stringify(value, null, 2): undefined stays undefined, and the
\* properties whose value is undefined are left out of an object.
JSONstringify(opt) ==
    IF opt = <<>>
    THEN [kind |-> "undefined", body |-> EmptyObj]
    ELSE [kind |-> "json",
          body |-> [k \in { f \in DOMAIN opt[1] : opt[1][f] # U } |-> opt[1][k]]]

\* a template literal or string literal used as the text
Plain(s) == [kind |-> "plain", body |-> [text |-> s]]

\* { content: [{ type: "text", text }] }
Content(text) == << [type |-> "text", text |-> text] >>

(***************************************************************************)
(* The inputSchema of the tools, as the ListTools handler declares them    *)
(***************************************************************************)
\* inputSchema.required
Required(name) ==
    CASE name = "key_protect_create_key" -> { "name" }
      [] name \in { "key_protect_get_key", "key_protect_rotate_key",
                    "key_protect_delete_key", "key_protect_get_key_policies" } -> { "key_id" }
      [] name = "key_protect_wrap_key" -> { "key_id", "plaintext" }
      [] name = "key_protect_unwrap_key" -> { "key_id", "ciphertext" }
      [] name \in { "zos_connect_get_service", "zos_connect_call_service" } -> { "service_name" }
      [] OTHER -> { }

\* inputSchema.properties.method.enum of zos_connect_call_service
MethodEnum == { "GET", "POST", "PUT", "DELETE", "PATCH" }

(***************************************************************************)
(* request.params.arguments                                                *)
(***************************************************************************)
NoArgs ==
    [key_id |-> U, plaintext |-> U, ciphertext |-> U, aad |-> <<>>,
     keyVersion |-> U, name |-> U, description |-> U, type |-> U,
     extractable |-> U, payload |-> U, force |-> U, limit |-> U,
     offset |-> U, state |-> U, service_name |-> U, operation |-> <<>>,
     method |-> U, path_params |-> <<>>, query_params |-> <<>>]

\* request.params = { name, arguments }; hasArgs is FALSE when the request
\* carries no `arguments` at all.
Invocation(name, hasArgs, args) == [name |-> name, hasArgs |-> hasArgs, args |-> args]

(***************************************************************************)
(* Steps of the handler.  A segment of the handler ends by returning a     *)
(* result, by throwing, or by awaiting one backend call.                   *)
(***************************************************************************)
NoContent == << >>

Return(content) == [k |-> "return", content |-> content, msg |-> "", reqs |-> << >>]
Throw(msg) == [k |-> "throw", content |-> NoContent, msg |-> msg, reqs |-> << >>]
Await(req) == [k |-> "call", content |-> NoContent, msg |-> "", reqs |-> << req >>]

\* Reading a property of `args` when the request carried no arguments.
TypeErrorMsg == "Cannot read properties of undefined"

\* the object sent to a backend, without its undefined properties
Strip(obj) == [k \in { f \in DOMAIN obj : obj[f] # U } |-> obj[k]]

Request(backend, op, params, aad, url, method, body, auth) ==
    [backend |-> backend, op |-> op, params |-> Strip(params), aad |-> aad,
     url |-> url, method |-> method, body |-> body, auth |-> auth]

KpRequest(op, params, aad) == Request("kp", op, params, aad, << >>, U, U, U)

(***************************************************************************)
(* getKeyProtectClient                                                     *)
(***************************************************************************)
\* the guard with || in place of && between the two settings
\* a client constructed on every call, whether one exists or not
ShouldConstructAgain(client, e) ==
    e.IBM_CLOUD_API_KEY # U /\ e.KEY_PROTECT_INSTANCE_ID # U

ShouldConstructEither(client, e) ==
    client = 0 /\ (e.IBM_CLOUD_API_KEY # U \/ e.KEY_PROTECT_INSTANCE_ID # U)

\* the condition under which the client is constructed
ShouldConstruct(client, e) ==
    client = 0 /\ e.IBM_CLOUD_API_KEY # U /\ e.KEY_PROTECT_INSTANCE_ID # U

\* <<value returned and left in keyProtectClient, constructions so far>>
getKeyProtectClient(client, made, e) ==
    IF ShouldConstruct(client, e) THEN << made + 1, made + 1 >> ELSE << client, made >>

(***************************************************************************)
(* Key Protect cases of the handler, up to the awaited SDK call            *)
(***************************************************************************)
KeyMime == "application/vnd.ibm.kms.key+json"

\* extractable: isRootKey ? false : (args.extractable || false)
Extractable(args) ==
    IF args.type = "root_key" THEN "false" ELSE Or(args.extractable, "false")

ListKeysRequest(args, e) ==
    KpRequest("getKeys",
              [bluemixInstance |-> e.KEY_PROTECT_INSTANCE_ID,
               limit |-> Or(args.limit, "100"), offset |-> Or(args.offset, "0"),
               state |-> args.state], << >>)

CreateKeyRequest(args, e) ==
    KpRequest("createKey",
              [bluemixInstance |-> e.KEY_PROTECT_INSTANCE_ID,
               collectionType |-> KeyMime, collectionTotal |-> "1",
               type |-> KeyMime, name |-> args.name,
               extractable |-> Extractable(args),
               description |-> IF Truthy(args.description) THEN args.description ELSE U,
               payload |-> IF Truthy(args.payload) THEN args.payload ELSE U], << >>)

GetKeyRequest(args, e) ==
    KpRequest("getKey",
              [bluemixInstance |-> e.KEY_PROTECT_INSTANCE_ID, id |-> args.key_id], << >>)

\* the wrap case without its `if (args.aad)` statement
WrapKeyRequestDropsAad(args, e) ==
    KpRequest("wrapKey",
              [id |-> args.key_id, bluemixInstance |-> e.KEY_PROTECT_INSTANCE_ID,
               plaintext |-> args.plaintext], << >>)

\* if (args.aad) body.aad = args.aad : an array, even an empty one, is truthy
WrapKeyRequest(args, e) ==
    KpRequest("wrapKey",
              [id |-> args.key_id, bluemixInstance |-> e.KEY_PROTECT_INSTANCE_ID,
               plaintext |-> args.plaintext], args.aad)

\* the unwrap case sending args.plaintext, as the wrap case does
UnwrapKeyRequestSendsPlaintext(args, e) ==
    KpRequest("unwrapKey",
              [id |-> args.key_id, bluemixInstance |-> e.KEY_PROTECT_INSTANCE_ID,
               ciphertext |-> args.plaintext], args.aad)

UnwrapKeyRequest(args, e) ==
    KpRequest("unwrapKey",
              [id |-> args.key_id, bluemixInstance |-> e.KEY_PROTECT_INSTANCE_ID,
               ciphertext |-> args.ciphertext], args.aad)

RotateKeyRequest(args, e) ==
    KpRequest("rotateKey",
              [id |-> args.key_id, bluemixInstance |-> e.KEY_PROTECT_INSTANCE_ID,
               payload |-> IF Truthy(args.payload) THEN args.payload ELSE U], << >>)

DeleteKeyRequest(args, e) ==
    KpRequest("deleteKey",
              [bluemixInstance |-> e.KEY_PROTECT_INSTANCE_ID, id |-> args.key_id,
               force |-> Or(args.force, "false")], << >>)

GetKeyPoliciesRequest(args, e) ==
    KpRequest("getKeyMetadata",
              [bluemixInstance |-> e.KEY_PROTECT_INSTANCE_ID, id |-> args.key_id], << >>)

KpCaseRequest(name, args, e) ==
    CASE name = "key_protect_list_keys" -> ListKeysRequest(args, e)
      [] name = "key_protect_create_key" -> CreateKeyRequest(args, e)
      [] name = "key_protect_get_key" -> GetKeyRequest(args, e)
      [] name = "key_protect_wrap_key" -> WrapKeyRequest(args, e)
      [] name = "key_protect_unwrap_key" -> UnwrapKeyRequest(args, e)
      [] name = "key_protect_rotate_key" -> RotateKeyRequest(args, e)
      [] name = "key_protect_delete_key" -> DeleteKeyRequest(args, e)
      [] name = "key_protect_get_key_policies" -> GetKeyPoliciesRequest(args, e)

\* Every Key Protect case reads a property of args before its SDK call.
KpCase(inv, e) ==
    IF ~inv.hasArgs THEN Throw(TypeErrorMsg) ELSE Await(KpCaseRequest(inv.name, inv.args, e))

KpNotConfigured ==
    Content(Plain("Error: Key Protect not configured. Set IBM_CLOUD_API_KEY and KEY_PROTECT_INSTANCE_ID environment variables."))

(***************************************************************************)
(* callZosConnect, up to the awaited fetch.  A URL or endpoint is a        *)
(* sequence of string tokens; a {param} placeholder is one token.          *)
(***************************************************************************)
RECURSIVE Join(_)
Join(toks) == IF toks = << >> THEN "" ELSE Head(toks) \o Join(Tail(toks))

\* Buffer.from(s).toString("base64")
Base64(s) == "base64(" \o s \o ")"

\* encodeURIComponent(String(value)), on the values of the model
encodeURIComponent(v) ==
    CASE v = "a b" -> "a%20b"
      [] v = "a/b" -> "a%2Fb"
      [] OTHER -> v

\* a body attached whatever the method
AnyMethod == { "GET", "POST", "PUT", "DELETE", "PATCH", "HEAD" }

BodyMethods == { "POST", "PUT", "PATCH" }

ZosUrlUnsetMsg == "z/OS Connect not configured. Set ZOS_CONNECT_URL environment variable."

callZosConnect(endpoint, method, body, e) ==
    IF e.ZOS_CONNECT_URL = U
    THEN Throw(ZosUrlUnsetMsg)
    ELSE Await(Request("zos", "fetch", EmptyObj, << >>,
                       << e.ZOS_CONNECT_URL >> \o endpoint, method,
                       IF Truthy(body) /\ method \in BodyMethods
                       THEN "json(" \o body \o ")" ELSE U,
                       IF e.ZOS_CONNECT_USERNAME # U /\ e.ZOS_CONNECT_PASSWORD # U
                       THEN "Basic " \o Base64(e.ZOS_CONNECT_USERNAME \o ":" \o e.ZOS_CONNECT_PASSWORD)
                       ELSE U))

(***************************************************************************)
(* z/OS Connect cases of the handler, up to the awaited fetch              *)
(***************************************************************************)
\* endpoint.replace(`{${key}}`, value): the first occurrence only
RECURSIVE replace(_, _, _)
replace(endpoint, pattern, value) ==
    IF endpoint = << >> THEN << >>
    ELSE IF Head(endpoint) = pattern THEN << value >> \o Tail(endpoint)
    ELSE << Head(endpoint) >> \o replace(Tail(endpoint), pattern, value)

\* for (const [key, value] of Object.entries(args.path_params)) ...
RECURSIVE SubstitutePathParams(_, _)
SubstitutePathParams(endpoint, entries) ==
    IF entries = << >> THEN endpoint
    ELSE SubstitutePathParams(
             replace(endpoint, "{" \o Head(entries)[1] \o "}",
                     encodeURIComponent(Head(entries)[2])),
             Tail(entries))

\* new URLSearchParams(args.query_params).toString()
RECURSIVE URLSearchParams(_)
URLSearchParams(entries) ==
    IF entries = << >> THEN << >>
    ELSE << Head(entries)[1] \o "=" \o encodeURIComponent(Head(entries)[2]) >>
         \o (IF Tail(entries) = << >> THEN << >> ELSE << "&" >>)
         \o URLSearchParams(Tail(entries))

\* args.operation || "/"
Operation(args) == IF args.operation = << >> THEN << "/" >> ELSE args.operation

CallServiceEndpoint(args) ==
    LET base == << "/zosConnect/services/", args.service_name >> \o Operation(args)
        substituted == IF args.path_params # << >>
                       THEN SubstitutePathParams(base, args.path_params[1])
                       ELSE base
    IN  IF args.query_params # << >>
        THEN substituted \o << "?" >> \o URLSearchParams(args.query_params[1])
        ELSE substituted

ZosCase(inv, e) ==
    CASE inv.name = "zos_connect_list_services" ->
             callZosConnect(<< "/zosConnect/services" >>, "GET", U, e)
      [] inv.name = "zos_connect_get_service" ->
             IF ~inv.hasArgs THEN Throw(TypeErrorMsg)
             ELSE callZosConnect(<< "/zosConnect/services/", inv.args.service_name >>, "GET", U, e)
      [] inv.name = "zos_connect_call_service" ->
             IF ~inv.hasArgs THEN Throw(TypeErrorMsg)
             ELSE callZosConnect(CallServiceEndpoint(inv.args),
                                 Or(inv.args.method, "POST"), inv.args.payload, e)
      [] inv.name = "zos_connect_list_apis" ->
             callZosConnect(<< "/zosConnect/apis" >>, "GET", U, e)
      [] inv.name = "zos_connect_health" ->
             callZosConnect(<< "/zosConnect/health" >>, "GET", U, e)

ZosNotConfigured ==
    Content(Plain("Error: z/OS Connect not configured. Set ZOS_CONNECT_URL environment variable. This requires access to an IBM mainframe with z/OS Connect EE installed."))

UnknownTool(name) == Content(Plain("Unknown tool: " \o name))

(***************************************************************************)
(* The CallToolRequestSchema handler, up to its first await                *)
(***************************************************************************)
\* a handler whose catch block rethrows
CatchRethrows(step) == step

\* } catch (error) { return { content: [{ type: "text", text: `Error: ${error.message}` }] } }
Catch(step) ==
    IF step.k = "throw" THEN Return(Content(Plain("Error: " \o step.msg))) ELSE step

\* the part of the try block after the Key Protect branch
ZosBranch(inv, e) ==
    IF startsWith(inv.name, "zos_connect_")
    THEN IF e.ZOS_CONNECT_URL = U THEN Return(ZosNotConfigured)
         ELSE IF inv.name \in ZosConnectTools THEN ZosCase(inv, e)
         ELSE Return(UnknownTool(inv.name))
    ELSE Return(UnknownTool(inv.name))

\* the try block with the client checked before the prefix of the name
TryBlockChecksClientFirst(inv, kpClient, e) ==
    IF kpClient = 0 THEN Return(KpNotConfigured)
    ELSE IF startsWith(inv.name, "key_protect_") /\ inv.name \in KeyProtectTools
    THEN KpCase(inv, e)
    ELSE ZosBranch(inv, e)

\* the try block; kpClient is what getKeyProtectClient() returned
TryBlock(inv, kpClient, e) ==
    IF startsWith(inv.name, "key_protect_")
    THEN IF kpClient = 0 THEN Return(KpNotConfigured)
         ELSE IF inv.name \in KeyProtectTools THEN KpCase(inv, e)
         ELSE ZosBranch(inv, e)
    ELSE ZosBranch(inv, e)

CallTool(inv, kpClient, e) == Catch(TryBlock(inv, kpClient, e))

\* a handler that asks for the Key Protect client whatever the name
ClientForAnyName(name, client, made, e) == getKeyProtectClient(client, made, e)

\* if (name.startsWith("key_protect_")) { const kpClient = getKeyProtectClient();
\* <<keyProtectClient after the line, constructions so far>>
ClientFor(name, client, made, e) ==
    IF startsWith(name, "key_protect_")
    THEN getKeyProtectClient(client, made, e)
    ELSE << client, made >>

(***************************************************************************)
(* Backend responses.  st is "ok" when the awaited promise resolves and    *)
(* "throw" when it rejects with an Error whose message is msg.  For Key    *)
(* Protect, hasRes/res are response.result.resources and obj the other     *)
(* properties of response.result; for fetch, status/ctype/text are the     *)
(* Response's status, content-type header and body.                        *)
(***************************************************************************)
Response(st, msg, hasRes, res, obj, status, ctype, text) ==
    [st |-> st, msg |-> msg, hasRes |-> hasRes, res |-> res, obj |-> obj,
     status |-> status, ctype |-> ctype, text |-> text]

Rejected(msg) == Response("throw", msg, FALSE, << >>, EmptyObj, U, U, U)
KpResolved(hasRes, res, obj) == Response("ok", "", hasRes, res, obj, U, U, U)
Fetched(status, ctype, text) == Response("ok", "", FALSE, << >>, EmptyObj, status, ctype, text)

\* obj.prop, undefined when the object has no such property
Get(obj, prop) == IF prop \in DOMAIN obj THEN obj[prop] ELSE U

(***************************************************************************)
(* The Key Protect service, as the handler and the documentation describe  *)
(* it: keys are root or standard keys, only root keys wrap, unwrap and     *)
(* rotate, and rotation keeps earlier versions usable for unwrap.          *)
(***************************************************************************)
KeyOrder == << "k1", "k2", "k3" >>
KeyIds == { KeyOrder[i] : i \in DOMAIN KeyOrder }
Plaintexts == { "p1", "p2" }

Key(type, version) == [type |-> type, version |-> version]
Exists(ks, id) == id \in KeyIds /\ ks[id].type \in { "root", "standard" }
IsRoot(ks, id) == id \in KeyIds /\ ks[id].type = "root"

\* the key resource the service returns
KeyObject(ks, id) ==
    [id |-> id, name |-> "name-" \o id, type |-> KeyMime, state |-> "1",
     extractable |-> IF ks[id].type = "standard" THEN "true" ELSE "false",
     crn |-> "crn:" \o id, createdBy |-> "iam-user",
     creationDate |-> "2024-01-01",
     lastRotateDate |-> IF ks[id].version > 1 THEN "2024-02-01" ELSE U]

\* the additional authenticated data of a request body
Aad(opt) == IF opt = << >> THEN << >> ELSE opt[1]

\* the wrapped DEK: opaque to the caller, bound to key, version and AAD
Ciphertext(id, version, plaintext, aad) ==
    "ct" \o ToString(<< id, version, plaintext, aad >>)

NumberOf(s) == CASE s = "0" -> 0 [] s = "1" -> 1 [] s = "2" -> 2 [] OTHER -> 100

Unavailable == Rejected("Service Unavailable")

\* the message of the error the service gives when a ciphertext does not
\* open under the key and AAD of the unwrap request
DecryptFailure == "Unprocessable Entity: ciphertext could not be unwrapped"

\* The type of a created key: the key resource carries no other
\* designation of it than `extractable`.
CreatedType(params) == IF Get(params, "extractable") = "true" THEN "standard" ELSE "root"

GetKeys(p, ks) ==
    LET all == SelectSeq(KeyOrder, LAMBDA id : Exists(ks, id))
        from == NumberOf(p.offset) + 1
        to == IF NumberOf(p.offset) + NumberOf(p.limit) < Len(all)
              THEN NumberOf(p.offset) + NumberOf(p.limit) ELSE Len(all)
        page == SubSeq(all, from, to)
    IN  { << IF all = << >> THEN KpResolved(FALSE, << >>, EmptyObj)
             ELSE KpResolved(TRUE, [i \in DOMAIN page |-> KeyObject(ks, page[i])], EmptyObj),
             ks >> }

CreateKey(p, ks) ==
    IF Get(p, "name") = U THEN { << Rejected("Bad Request: name is required"), ks >> }
    ELSE IF ks["k3"].type # "none" THEN { << Rejected("Conflict: key quota reached"), ks >> }
    ELSE LET ks2 == [ks EXCEPT !["k3"] = Key(CreatedType(p), 1)]
         IN  { << KpResolved(TRUE, << [id |-> "k3", name |-> p.name, type |-> KeyMime,
                                      crn |-> "crn:k3"] >>, EmptyObj), ks2 >> }

GetKey(p, ks) ==
    IF Exists(ks, Get(p, "id"))
    THEN { << KpResolved(TRUE, << KeyObject(ks, p.id) >>, EmptyObj), ks >> }
    ELSE { << Rejected("Key not found"), ks >>,
           << KpResolved(TRUE, << >>, EmptyObj), ks >>,
           << KpResolved(FALSE, << >>, EmptyObj), ks >> }

WrapKey(p, aad, ks) ==
    IF ~Exists(ks, Get(p, "id")) THEN { << Rejected("Key not found"), ks >> }
    ELSE IF ~IsRoot(ks, p.id)
    THEN { << Rejected("Bad Request: wrap requires a root key"), ks >> }
    ELSE IF Get(p, "plaintext") = U
    THEN { << Rejected("Bad Request: plaintext is required"), ks >> }
    ELSE { << KpResolved(FALSE, << >>,
                         [ciphertext |-> Ciphertext(p.id, ks[p.id].version, p.plaintext, Aad(aad)),
                          keyVersion |-> ToString(ks[p.id].version)]), ks >> }

UnwrapKey(p, aad, ks) ==
    IF ~Exists(ks, Get(p, "id")) THEN { << Rejected("Key not found"), ks >> }
    ELSE IF ~IsRoot(ks, p.id)
    THEN { << Rejected("Bad Request: unwrap requires a root key"), ks >> }
    ELSE LET opened == { vp \in (1..ks[p.id].version) \X Plaintexts :
                           Ciphertext(p.id, vp[1], vp[2], Aad(aad)) = Get(p, "ciphertext") }
         IN  IF opened = { }
             THEN { << Rejected(DecryptFailure), ks >> }
             ELSE { << KpResolved(FALSE, << >>,
                                  [plaintext |-> vp[2], keyVersion |-> ToString(vp[1])]), ks >>
                    : vp \in opened }

RotateKey(p, ks) ==
    IF ~Exists(ks, Get(p, "id")) THEN { << Rejected("Key not found"), ks >> }
    ELSE IF ~IsRoot(ks, p.id)
    THEN { << Rejected("Bad Request: only root keys can be rotated"), ks >> }
    ELSE IF ks[p.id].version >= MaxVersion THEN { }
    ELSE { << KpResolved(FALSE, << >>, EmptyObj),
              [ks EXCEPT ![p.id].version = @ + 1] >> }

DeleteKey(p, ks) ==
    IF ~Exists(ks, Get(p, "id")) THEN { << Rejected("Key not found"), ks >> }
    ELSE { << KpResolved(FALSE, << >>, EmptyObj), [ks EXCEPT ![p.id].type = "deleted"] >> }

GetKeyMetadata(p, ks) ==
    IF ~Exists(ks, Get(p, "id")) THEN { << Rejected("Key not found"), ks >> }
    ELSE { << KpResolved(TRUE, << KeyObject(ks, p.id) >>, EmptyObj), ks >> }

\* every <<response, key store afterwards>> the service may give to a request
KeyProtect(req, ks) ==
    { << Unavailable, ks >> } \cup
    CASE req.op = "getKeys" -> GetKeys(req.params, ks)
      [] req.op = "createKey" -> CreateKey(req.params, ks)
      [] req.op = "getKey" -> GetKey(req.params, ks)
      [] req.op = "wrapKey" -> WrapKey(req.params, req.aad, ks)
      [] req.op = "unwrapKey" -> UnwrapKey(req.params, req.aad, ks)
      [] req.op = "rotateKey" -> RotateKey(req.params, ks)
      [] req.op = "deleteKey" -> DeleteKey(req.params, ks)
      [] req.op = "getKeyMetadata" -> GetKeyMetadata(req.params, ks)

(***************************************************************************)
(* The z/OS Connect server: any status, with or without a JSON body, or    *)
(* no answer at all.                                                       *)
(***************************************************************************)
ZosConnect(req) ==
    { Rejected("fetch failed"),
      Fetched("200", "application/json", "{json}"),
      Fetched("200", "application/json", "not json"),
      Fetched("200", "text/plain", "text"),
      Fetched("200", U, "text"),
      Fetched("404", "text/plain", "Not Found"),
      Fetched("500", "application/json", "{error}") }

(***************************************************************************)
(* The handler after its await: Key Protect cases                          *)
(***************************************************************************)
\* response.result.resources?.[0]
FirstResource(resp) ==
    IF resp.hasRes /\ Len(resp.res) >= 1 THEN << resp.res[1] >> ELSE << >>

\* obj?.prop
OptGet(opt, prop) == IF opt = << >> THEN U ELSE Get(opt[1], prop)

\* the summary list_keys makes of one key resource
KeySummary(k) ==
    Strip([id |-> Get(k, "id"), name |-> Get(k, "name"), type |-> Get(k, "type"),
           state |-> Get(k, "state"), extractable |-> Get(k, "extractable"),
           crn |-> Get(k, "crn"), createdBy |-> Get(k, "createdBy"),
           creationDate |-> Get(k, "creationDate"),
           lastRotateDate |-> Get(k, "lastRotateDate"),
           deleted |-> Get(k, "deleted")])

\* response.result, as one object
ResultObject(resp) ==
    IF resp.hasRes THEN resp.obj @@ [resources |-> ToString(resp.res)] ELSE resp.obj

KpPayload(name, args, resp) ==
    CASE name = "key_protect_list_keys" ->
             LET ks == IF resp.hasRes
                       THEN [i \in DOMAIN resp.res |-> KeySummary(resp.res[i])]
                       ELSE << >>
             IN  << [total |-> ToString(Len(ks)), keys |-> ToString(ks)] >>
      [] name = "key_protect_create_key" ->
             << [message |-> "Key \"" \o args.name \o "\" created successfully",
                 key_id |-> OptGet(FirstResource(resp), "id"),
                 key_name |-> OptGet(FirstResource(resp), "name"),
                 key_type |-> OptGet(FirstResource(resp), "type"),
                 key_crn |-> OptGet(FirstResource(resp), "crn")] >>
      [] name = "key_protect_get_key" -> FirstResource(resp)
      [] name = "key_protect_wrap_key" ->
             << [message |-> "Key wrapped successfully",
                 ciphertext |-> Get(resp.obj, "ciphertext"),
                 keyVersion |-> Get(resp.obj, "keyVersion")] >>
      [] name = "key_protect_unwrap_key" ->
             << [message |-> "Key unwrapped successfully",
                 plaintext |-> Get(resp.obj, "plaintext"),
                 keyVersion |-> Get(resp.obj, "keyVersion")] >>
      [] name = "key_protect_rotate_key" ->
             << [message |-> "Key " \o args.key_id \o " rotated successfully",
                 keyId |-> args.key_id] >>
      [] name = "key_protect_delete_key" ->
             << [message |-> "Key " \o args.key_id \o " deleted successfully",
                 warning |-> "This action is irreversible. Data encrypted with this key is now unrecoverable."] >>
      [] name = "key_protect_get_key_policies" -> << ResultObject(resp) >>

KpResume(inv, resp) ==
    IF resp.st = "throw" THEN Throw(resp.msg)
    ELSE Return(Content(JSONstringify(KpPayload(inv.name, inv.args, resp))))

(***************************************************************************)
(* callZosConnect and the handler after the fetch                          *)
(***************************************************************************)
\* a response object whose `ok` is true whatever the status
OkAlways(status) == TRUE

\* response.ok
Ok(status) == status \in { "200", "201", "204" }

\* contentType && contentType.includes("application/json")
IsJson(ctype) == ctype # U /\ ctype = "application/json"

\* what callZosConnect returns or throws: <<thrown, message or value>>;
\* the value is given as its JSON text
ZosOutcome(resp) ==
    IF resp.st = "throw" THEN << TRUE, resp.msg >>
    ELSE IF ~Ok(resp.status)
    THEN << TRUE, "z/OS Connect error " \o resp.status \o ": " \o resp.text >>
    ELSE IF IsJson(resp.ctype)
    THEN IF resp.text = "not json" THEN << TRUE, "Unexpected token in JSON" >>
         ELSE << FALSE, resp.text >>
    ELSE << FALSE, "\"" \o resp.text \o "\"" >>

ZosPayload(name, args, value) ==
    IF name = "zos_connect_call_service"
    THEN << [service |-> args.service_name, operation |-> Join(Operation(args)),
             method |-> Or(args.method, "POST"), response |-> value] >>
    ELSE << [value |-> value] >>

ZosResume(inv, resp) ==
    LET out == ZosOutcome(resp)
    IN  IF out[1] THEN Throw(out[2])
        ELSE Return(Content(JSONstringify(ZosPayload(inv.name, inv.args, out[2]))))

\* a handler that issues the call again when it has failed
ResumeRetries(inv, req, resp) ==
    LET step == IF req.backend = "kp" THEN KpResume(inv, resp) ELSE ZosResume(inv, resp)
    IN  IF step.k = "throw" THEN Await(req) ELSE step

\* the rest of the try block once the awaited call has settled
Resume(inv, req, resp) ==
    Catch(IF req.backend = "kp" THEN KpResume(inv, resp) ELSE ZosResume(inv, resp))

(***************************************************************************)
(* The orchestrator: the invocations it sends                              *)
(***************************************************************************)
\* optional aad arrays: absent, empty, and two one-element arrays
AadArgs == { << >>, << << >> >>, << << "a" >> >>, << << "b" >> >> }
WrapAadArgs == { << >>, << << >> >>, << << "a" >> >> }

ListKeysArgs == { [NoArgs EXCEPT !.limit = l] : l \in { U, "0", "1" } }

CreateKeyArgs ==
    { [NoArgs EXCEPT !.name = "n1", !.type = t, !.extractable = x] :
        t \in { U, "root_key", "standard_key" }, x \in { U, "true", "false" } }
    \cup { NoArgs,
           [NoArgs EXCEPT !.name = "n1", !.description = "d", !.payload = "material"] }

KeyIdArgs == { [NoArgs EXCEPT !.key_id = id] : id \in KeyIds \cup { U } }

WrapKeyArgs ==
    { [NoArgs EXCEPT !.key_id = id, !.plaintext = p, !.aad = a] :
        id \in { "k1", "k2" }, p \in Plaintexts, a \in WrapAadArgs }
    \cup { [NoArgs EXCEPT !.key_id = "k1"] }

\* unwrap is called with what an earlier wrap returned, or with variations of it
UnwrapKeyArgs(mem) ==
    UNION { { [NoArgs EXCEPT !.key_id = id, !.ciphertext = mem[i].ciphertext,
                             !.aad = a, !.keyVersion = v] :
                id \in { mem[i].key_id, "k2" }, a \in AadArgs,
                v \in { U, mem[i].keyVersion } } : i \in DOMAIN mem }
    \cup { [NoArgs EXCEPT !.key_id = "k1", !.ciphertext = c] : c \in { U, "garbage" } }

RotateKeyArgs ==
    { [NoArgs EXCEPT !.key_id = id] : id \in { "k1", "k2", U } }
    \cup { [NoArgs EXCEPT !.key_id = "k1", !.payload = "material"] }

DeleteKeyArgs ==
    KeyIdArgs \cup { [NoArgs EXCEPT !.key_id = "k1", !.force = "true"] }

GetServiceArgs == { [NoArgs EXCEPT !.service_name = n] : n \in { U, "svc" } }

CallServiceArgs ==
    { [NoArgs EXCEPT !.service_name = "svc"],
      [NoArgs EXCEPT !.service_name = "svc", !.operation = << "/accounts" >>,
                     !.method = "GET", !.payload = "{payload}"],
      [NoArgs EXCEPT !.service_name = "svc", !.operation = << "/accounts" >>,
                     !.payload = "{payload}", !.query_params = << << >> >>],
      [NoArgs EXCEPT !.service_name = "svc",
                     !.operation = << "/customers/", "{id}" >>, !.method = "PUT",
                     !.payload = "{payload}",
                     !.path_params = << << << "id", "a b" >> >> >>,
                     !.query_params = << << << "q", "a/b" >>, << "r", "1" >> >> >>],
      [NoArgs EXCEPT !.service_name = "svc",
                     !.operation = << "/customers/", "{id}" >>, !.method = "DELETE",
                     !.payload = "{payload}"],
      [NoArgs EXCEPT !.service_name = "svc",
                     !.operation = << "/customers/", "{id}", "/orders/", "{id}" >>,
                     !.method = "GET",
                     !.path_params = << << << "id", "7" >> >> >>],
      [NoArgs EXCEPT !.service_name = "svc",
                     !.operation = << "/customers/", "{id}" >>, !.method = "PATCH",
                     !.payload = "{payload}",
                     !.path_params = << << << "x", "1" >> >> >>],
      [NoArgs EXCEPT !.service_name = "svc", !.method = "HEAD"] }

ArgsOf(name, mem) ==
    CASE name = "key_protect_list_keys" -> ListKeysArgs
      [] name = "key_protect_create_key" -> CreateKeyArgs
      [] name = "key_protect_get_key" -> KeyIdArgs
      [] name = "key_protect_wrap_key" -> WrapKeyArgs
      [] name = "key_protect_unwrap_key" -> UnwrapKeyArgs(mem)
      [] name = "key_protect_rotate_key" -> RotateKeyArgs
      [] name = "key_protect_delete_key" -> DeleteKeyArgs
      [] name = "key_protect_get_key_policies" -> KeyIdArgs
      [] name = "zos_connect_get_service" -> GetServiceArgs
      [] name = "zos_connect_call_service" -> CallServiceArgs
      [] OTHER -> { NoArgs }

Names == ToolCatalog \cup UnknownNames

Invocations(mem) ==
    UNION { { Invocation(n, TRUE, a) : a \in ArgsOf(n, mem) } : n \in Names }
    \cup { Invocation(n, FALSE, NoArgs) : n \in Names }

(***************************************************************************)
(* State                                                                   *)
(***************************************************************************)
NoResponse == Response("none", "", FALSE, << >>, EmptyObj, U, U, U)

Idle ==
    [pc |-> "idle", inv |-> Invocation("", FALSE, NoArgs), reqs |-> << >>,
     resp |-> NoResponse, content |-> NoContent]

Init ==
    /\ env \in Environments
    /\ keyProtectClient = 0
    /\ constructed = 0
    /\ keys = [id \in KeyIds |->
                 CASE id = "k1" -> Key("root", 1)
                   [] id = "k2" -> Key("standard", 1)
                   [] OTHER -> Key("none", 0)]
    /\ cur = Idle
    /\ other = Idle
    /\ memory = << >>

\* where a segment of the handler leaves the call
PcOf(step) ==
    CASE step.k = "return" -> "returned"
      [] step.k = "call" -> "await"
      [] step.k = "throw" -> "faulted"

(***************************************************************************)
(* Actions                                                                 *)
(***************************************************************************)
\* The handler runs from the request to its first await (or to its return).
Dispatch(inv) ==
    /\ cur.pc = "idle"
    /\ LET got == ClientFor(inv.name, keyProtectClient, constructed, env)
           step == CallTool(inv, got[1], env)
       IN  /\ keyProtectClient' = got[1]
           /\ constructed' = got[2]
           /\ cur' = [pc |-> PcOf(step), inv |-> inv, reqs |-> step.reqs,
                      resp |-> NoResponse, content |-> step.content]
    /\ UNCHANGED << env, keys, other, memory >>

\* The awaited Key Protect call settles and the handler runs to its return.
KeyProtectResponds ==
    /\ cur.pc = "await"
    /\ cur.reqs[1].backend = "kp"
    /\ \E out \in KeyProtect(cur.reqs[1], keys) :
          LET step == Resume(cur.inv, cur.reqs[1], out[1])
          IN  /\ cur' = [cur EXCEPT !.pc = PcOf(step), !.resp = out[1],
                                    !.reqs = @ \o step.reqs,
                                    !.content = step.content]
              /\ keys' = out[2]
    /\ UNCHANGED << env, keyProtectClient, constructed, other, memory >>

\* The awaited fetch settles and the handler runs to its return.
ZosConnectResponds ==
    /\ cur.pc = "await"
    /\ cur.reqs[1].backend = "zos"
    /\ \E resp \in ZosConnect(cur.reqs[1]) :
          LET step == Resume(cur.inv, cur.reqs[1], resp)
          IN  cur' = [cur EXCEPT !.pc = PcOf(step), !.resp = resp,
                                 !.reqs = @ \o step.reqs,
                                 !.content = step.content]
    /\ UNCHANGED << env, keyProtectClient, constructed, keys, other, memory >>

\* what the orchestrator keeps of a wrap result: the envelope and what it wrapped
Envelope(inv, text) ==
    [key_id |-> inv.args.key_id, plaintext |-> inv.args.plaintext,
     aad |-> inv.args.aad, ciphertext |-> text.body.ciphertext,
     keyVersion |-> Get(text.body, "keyVersion")]

IsEnvelope(c) ==
    /\ c.pc = "returned"
    /\ c.inv.name = "key_protect_wrap_key"
    /\ Len(c.content) = 1
    /\ c.content[1].text.kind = "json"
    /\ "ciphertext" \in DOMAIN c.content[1].text.body

\* The orchestrator takes the result; the next invocation may follow.  Like
\* the envelope encryption test it holds on to one wrapped DEK; a new wrap
\* result may take the place of the one it holds.
Deliver ==
    /\ cur.pc \in { "returned", "faulted" }
    /\ cur' = Idle
    /\ \/ memory' = memory
       \/ /\ IsEnvelope(cur)
          /\ memory' = << Envelope(cur.inv, cur.content[1].text) >>
    /\ UNCHANGED << env, keyProtectClient, constructed, keys, other >>

Next ==
    \/ \E inv \in Invocations(memory) : Dispatch(inv)
    \/ KeyProtectResponds
    \/ ZosConnectResponds
    \/ Deliver

Spec == Init /\ [][Next]_vars

(***************************************************************************)
(* Two tool calls in flight.  The server starts the handler of a request   *)
(* when it arrives and does not wait for the handler of the request        *)
(* before: a second call runs while the first is suspended at its await,   *)
(* and the two are interleaved at these points only.                       *)
(***************************************************************************)
InterleavedInvocations ==
    { Invocation("key_protect_get_key", TRUE, [NoArgs EXCEPT !.key_id = "k1"]),
      Invocation("key_protect_wrap_key", TRUE,
                 [NoArgs EXCEPT !.key_id = "k1", !.plaintext = "p1"]),
      Invocation("key_protect_delete_key", TRUE, [NoArgs EXCEPT !.key_id = "k1"]),
      Invocation("zos_connect_health", TRUE, NoArgs),
      Invocation("totally_unknown_tool", TRUE, NoArgs) }

DispatchOther(inv) ==
    /\ other.pc = "idle"
    /\ LET got == ClientFor(inv.name, keyProtectClient, constructed, env)
           step == CallTool(inv, got[1], env)
       IN  /\ keyProtectClient' = got[1]
           /\ constructed' = got[2]
           /\ other' = [pc |-> PcOf(step), inv |-> inv, reqs |-> step.reqs,
                        resp |-> NoResponse, content |-> step.content]
    /\ UNCHANGED << env, keys, cur, memory >>

KeyProtectRespondsOther ==
    /\ other.pc = "await"
    /\ other.reqs[1].backend = "kp"
    /\ \E out \in KeyProtect(other.reqs[1], keys) :
          LET step == Resume(other.inv, other.reqs[1], out[1])
          IN  /\ other' = [other EXCEPT !.pc = PcOf(step), !.resp = out[1],
                                        !.reqs = @ \o step.reqs,
                                        !.content = step.content]
              /\ keys' = out[2]
    /\ UNCHANGED << env, keyProtectClient, constructed, cur, memory >>

ZosConnectRespondsOther ==
    /\ other.pc = "await"
    /\ other.reqs[1].backend = "zos"
    /\ \E resp \in ZosConnect(other.reqs[1]) :
          LET step == Resume(other.inv, other.reqs[1], resp)
          IN  other' = [other EXCEPT !.pc = PcOf(step), !.resp = resp,
                                    !.reqs = @ \o step.reqs,
                                    !.content = step.content]
    /\ UNCHANGED << env, keyProtectClient, constructed, keys, cur, memory >>

DeliverOther ==
    /\ other.pc \in { "returned", "faulted" }
    /\ other' = Idle
    /\ \/ memory' = memory
       \/ /\ IsEnvelope(other)
          /\ memory' = << Envelope(other.inv, other.content[1].text) >>
    /\ UNCHANGED << env, keyProtectClient, constructed, keys, cur >>

NextInterleaved ==
    \/ \E inv \in InterleavedInvocations : Dispatch(inv)
    \/ KeyProtectResponds
    \/ ZosConnectResponds
    \/ Deliver
    \/ \E inv \in InterleavedInvocations : DispatchOther(inv)
    \/ KeyProtectRespondsOther
    \/ ZosConnectRespondsOther
    \/ DeliverOther

SpecInterleaved == Init /\ [][NextInterleaved]_vars

(***************************************************************************)
(* Properties                                                              *)
(***************************************************************************)
Called == cur.pc # "idle"
Returned == cur.pc = "returned"
Text == cur.content[1].text
ErrorText(msg) == Plain("Error: " \o msg)

\* C1: whatever the name, the arguments (absent ones included), the
\* configuration and the backend's answer, a tool call never ends in a fault
\* that reaches the caller: it is awaiting a backend call that can settle, or
\* it has returned a result holding a content item.
C1_NeverFaults ==
    /\ cur.pc \in { "idle", "await", "returned" }
    /\ cur.pc = "await" => ENABLED (KeyProtectResponds \/ ZosConnectResponds)
    /\ Returned => cur.content # NoContent

\* a call without arguments whose TypeError was turned into a result
C1_Witness ==
    /\ Returned
    /\ ~cur.inv.hasArgs
    /\ cur.inv.name = "key_protect_wrap_key"
    /\ Text = ErrorText(TypeErrorMsg)

\* C2: every result is exactly one content item of type "text" whose text is
\* a string, a JSON serialization or a diagnostic string, for every operation
\* and backend response.
C2_TextIsAString ==
    Returned =>
        /\ Len(cur.content) = 1
        /\ cur.content[1].type = "text"
        /\ Text.kind \in { "json", "plain" }

\* C3: a name outside the catalog gets the unknown-operation result echoing
\* the name, and no backend call, under every configuration.
C3_UnknownOperation ==
    (Called /\ cur.inv.name \notin ToolCatalog) =>
        /\ Returned
        /\ cur.content = UnknownTool(cur.inv.name)
        /\ cur.reqs = << >>

\* C4: the two backends are independently available.  A z/OS Connect tool
\* without ZOS_CONNECT_URL gets the configuration error and no call, whatever
\* the Key Protect configuration; a Key Protect tool with its configuration
\* present never gets a configuration error and, given an arguments object,
\* issues its Key Protect call, whatever the z/OS Connect configuration; and
\* the same with the two backends exchanged.
ReadsNoArgs == { "zos_connect_list_services", "zos_connect_list_apis", "zos_connect_health" }

C4_IndependentBackends ==
    /\ (Called /\ cur.inv.name \in ZosConnectTools /\ ~ZosConfigured(env)) =>
          Returned /\ cur.content = ZosNotConfigured /\ cur.reqs = << >>
    /\ (Called /\ cur.inv.name \in KeyProtectTools /\ ~KpConfigured(env)) =>
          Returned /\ cur.content = KpNotConfigured /\ cur.reqs = << >>
    /\ (Called /\ cur.inv.name \in KeyProtectTools /\ KpConfigured(env)) =>
          /\ cur.content \notin { KpNotConfigured, ZosNotConfigured }
          /\ cur.inv.hasArgs => Len(cur.reqs) = 1 /\ cur.reqs[1].backend = "kp"
    /\ (Called /\ cur.inv.name \in ZosConnectTools /\ ZosConfigured(env)) =>
          /\ cur.content \notin { KpNotConfigured, ZosNotConfigured }
          /\ (cur.inv.hasArgs \/ cur.inv.name \in ReadsNoArgs) =>
                Len(cur.reqs) = 1 /\ cur.reqs[1].backend = "zos"

\* only Key Protect is configured, and a Key Protect call went through
C4_Witness ==
    /\ KpConfigured(env) /\ ~ZosConfigured(env)
    /\ Returned
    /\ cur.inv.name = "key_protect_get_key"
    /\ cur.resp.st = "ok"
    /\ Text.kind = "json"

\* C5: while the configuration of a backend is absent, no client handle is
\* ever constructed for it, and every invocation of one of its tools returns
\* the configuration error without a backend call.
C5_ConfigurationMissing ==
    /\ ~KpConfigured(env) => keyProtectClient = 0 /\ constructed = 0
    /\ (Called /\ cur.inv.name \in KeyProtectTools /\ ~KpConfigured(env)) =>
          Returned /\ cur.content = KpNotConfigured /\ cur.reqs = << >>
    /\ (Called /\ cur.inv.name \in ZosConnectTools /\ env.ZOS_CONNECT_URL = U) =>
          Returned /\ cur.content = ZosNotConfigured /\ cur.reqs = << >>

\* the API key is set but the instance id is not
C5_Witness ==
    /\ env.IBM_CLOUD_API_KEY # U /\ env.KEY_PROTECT_INSTANCE_ID = U
    /\ Returned
    /\ cur.inv.name = "key_protect_wrap_key"
    /\ cur.inv.hasArgs
    /\ cur.content = KpNotConfigured

\* C6: wrap, unwrap and rotate on the id of a standard key issue no Key
\* Protect call: a standard key is never the id of such a request.
TypedOps == { "key_protect_wrap_key", "key_protect_unwrap_key", "key_protect_rotate_key" }

C6_StandardKeyNeverSent ==
    (Called /\ cur.inv.name \in TypedOps /\ cur.inv.hasArgs
        /\ cur.inv.args.key_id \in KeyIds
        /\ keys[cur.inv.args.key_id].type = "standard") =>
            cur.reqs = << >>

\* C7: create_key with type root_key sends extractable = false and creates a
\* root key; with type standard_key or no type it sends extractable = true
\* only if the caller passed true, and creates a standard key.
C7_CreateKey ==
    (Returned /\ cur.inv.name = "key_protect_create_key" /\ cur.resp.st = "ok") =>
        IF cur.inv.args.type = "root_key"
        THEN /\ cur.reqs[1].params.extractable = "false"
             /\ keys["k3"].type = "root"
        ELSE /\ cur.reqs[1].params.extractable =
                    (IF cur.inv.args.extractable = "true" THEN "true" ELSE "false")
             /\ keys["k3"].type = "standard"

\* C10: on unwrap, the keyVersion the caller supplies back is passed to the
\* backend unaltered.
C10_KeyVersionPassedThrough ==
    (Called /\ cur.inv.name = "key_protect_unwrap_key" /\ cur.inv.hasArgs
        /\ cur.inv.args.keyVersion # U /\ cur.reqs # << >>) =>
            Get(cur.reqs[1].params, "keyVersion") = cur.inv.args.keyVersion

\* the call in flight is an unwrap of envelope e under the key that wrapped it
Unwraps(e) ==
    /\ cur.inv.name = "key_protect_unwrap_key"
    /\ cur.inv.hasArgs
    /\ cur.inv.args.key_id = e.key_id
    /\ cur.inv.args.ciphertext = e.ciphertext

\* messages of failures that are not about the ciphertext: the service is
\* down, or the key was deleted since the wrap
Unrelated == { "Service Unavailable", "Key not found" }

C9_AadBinding ==
    /\ (Called /\ cur.inv.name \in { "key_protect_wrap_key", "key_protect_unwrap_key" }
           /\ cur.reqs # << >>) => cur.reqs[1].aad = cur.inv.args.aad
    /\ \A i \in DOMAIN memory :
          (Returned /\ Unwraps(memory[i])) =>
              IF Aad(cur.inv.args.aad) # Aad(memory[i].aad)
              THEN /\ cur.resp.st = "throw"
                   /\ Text = ErrorText(cur.resp.msg)
                   /\ cur.resp.msg \in Unrelated \cup { DecryptFailure }
                   /\ "plaintext" \notin DOMAIN Text.body
              ELSE /\ cur.resp.st = "ok" =>
                         Get(Text.body, "plaintext") = memory[i].plaintext
                   /\ cur.resp.st = "throw" => cur.resp.msg \in Unrelated

\* wrapped with aad ["a"], unwrapped with aad ["b"]: the decrypt failure
C9_Witness ==
    /\ Returned
    /\ memory # << >>
    /\ Unwraps(memory[1])
    /\ memory[1].aad = << << "a" >> >>
    /\ cur.inv.args.aad = << << "b" >> >>
    /\ Text = ErrorText(DecryptFailure)

(***************************************************************************)
(* Properties of zos_connect_call_service                                  *)
(***************************************************************************)
Range(seq) == { seq[i] : i \in DOMAIN seq }

\* the call in flight is a call_service invocation with an arguments object
CallsService == Called /\ cur.inv.name = "zos_connect_call_service" /\ cur.inv.hasArgs

\* the tokens of the model that hold a literal '{' or '}'
Placeholders == { "{id}", "{x}" }

\* the entries of an optional mapping
Entries(opt) == IF opt = << >> THEN << >> ELSE opt[1]

\* the placeholders path_params has a key for
Supplied(args) == { "{" \o kv[1] \o "}" : kv \in Range(Entries(args.path_params)) }

\* every placeholder of the operation path is supplied
AllSupplied(args) == (Range(Operation(args)) \cap Placeholders) \subseteq Supplied(args)

\* C11: every occurrence of {key} is replaced for each key of path_params,
\* also when a placeholder occurs more than once; with all placeholders
\* supplied the endpoint that is sent holds no '{' or '}'.
C11_EveryOccurrenceReplaced ==
    (CallsService /\ cur.reqs # << >>) =>
        /\ Range(cur.reqs[1].url) \cap Supplied(cur.inv.args) = { }
        /\ AllSupplied(cur.inv.args) =>
              Range(cur.reqs[1].url) \cap Placeholders = { }

\* C12: a call_service invocation whose operation path has a placeholder
\* that path_params does not satisfy issues no HTTP request, and no request
\* with an unresolved placeholder in its URL is ever sent.
C12_UnresolvedNeverSent ==
    /\ (CallsService /\ ~AllSupplied(cur.inv.args)) => cur.reqs = << >>
    /\ \A i \in DOMAIN cur.reqs :
          cur.reqs[i].backend = "zos" =>
              Range(cur.reqs[i].url) \cap Placeholders = { }

(***************************************************************************)
(* Properties of the z/OS Connect responses and requests                   *)
(***************************************************************************)
\* the fetch of the call in flight has resolved with a response
FetchResolved ==
    /\ Called /\ cur.reqs # << >> /\ cur.reqs[1].backend = "zos"
    /\ cur.resp # NoResponse /\ cur.resp.st = "ok"

\* the statuses outside 200..299 that the gateway answers with
NonSuccess == { "404", "500" }

\* C13: for each of the five zos_connect_* operations, a response whose
\* status is not 2xx ends the call with the error text that carries the
\* status and the raw response body, never with a payload.
C13_NonSuccessIsError ==
    (FetchResolved /\ cur.resp.status \in NonSuccess) =>
        /\ cur.inv.name \in ZosConnectTools
        /\ Returned
        /\ Text = ErrorText("z/OS Connect error " \o cur.resp.status
                            \o ": " \o cur.resp.text)

C13_Witness ==
    /\ FetchResolved /\ cur.resp.status = "500" /\ cur.resp.text = "{error}"
    /\ cur.inv.name = "zos_connect_health"
    /\ Text = Plain("Error: z/OS Connect error 500: {error}")

\* C14: the request of a call_service invocation carries the JSON-encoded
\* payload as its body exactly when the method is POST, PUT or PATCH and a
\* payload was supplied; with GET or DELETE it carries no body, and the
\* request is still issued.
C14_BodyOnlyForBodyMethods ==
    CallsService =>
        LET args == cur.inv.args
            method == IF args.method = U THEN "POST" ELSE args.method
        IN  /\ env.ZOS_CONNECT_URL # U => Len(cur.reqs) = 1
            /\ cur.reqs # << >> =>
                  /\ cur.reqs[1].method = method
                  /\ cur.reqs[1].body =
                        IF method \in { "POST", "PUT", "PATCH" } /\ args.payload # U
                        THEN "json(" \o args.payload \o ")" ELSE U

C14_Witness ==
    /\ CallsService /\ Returned /\ FetchResolved /\ cur.resp.status = "200"
    /\ cur.inv.args.method = "GET" /\ cur.inv.args.payload # U
    /\ cur.reqs[1].body = U
    /\ Text.kind = "json"

(***************************************************************************)
(* Properties of the arguments                                             *)
(***************************************************************************)
\* the arguments of an invocation of a catalogued tool break its inputSchema:
\* a required property is missing, or method is outside its enum
ViolatesSchema(inv) ==
    /\ inv.name \in ToolCatalog
    /\ \/ \E f \in Required(inv.name) : inv.args[f] = U
       \/ /\ inv.name = "zos_connect_call_service"
          /\ inv.args.method # U
          /\ inv.args.method \notin MethodEnum

\* C16: an invocation of a catalogued tool whose arguments break the tool's
\* declared schema (a required property missing, method outside its enum)
\* returns an error text at once and makes no backend call.
C16_SchemaViolationRejected ==
    (Called /\ ViolatesSchema(cur.inv)) =>
        /\ cur.reqs = << >>
        /\ Returned
        /\ Text.kind = "plain"

(***************************************************************************)
(* Properties of the number of backend calls                               *)
(***************************************************************************)
\* the awaited call has settled with a failure: the SDK call or the fetch
\* rejected, or the gateway answered with a status outside 200..299
CallFailed ==
    /\ Called /\ cur.resp # NoResponse
    /\ \/ cur.resp.st = "throw"
       \/ cur.reqs[1].backend = "zos" /\ cur.resp.status \in NonSuccess

\* C17: an invocation issues at most one backend call, and when that call
\* fails the invocation has returned the error text with no further call.
C17_NoRetry ==
    /\ Len(cur.reqs) <= 1
    /\ CallFailed =>
          /\ Returned
          /\ Len(cur.reqs) = 1
          /\ Text.kind = "plain"

C17_Witness ==
    /\ CallFailed /\ cur.resp.st = "throw" /\ cur.reqs[1].backend = "kp"
    /\ Returned /\ Len(cur.reqs) = 1
    /\ Text = ErrorText(cur.resp.msg)

(***************************************************************************)
(* Properties of the URL of zos_connect_call_service                       *)
(***************************************************************************)
\* C18: the URL of a call_service request holds a '?' only when query_params
\* has at least one entry, and then the encoded pairs follow it in the order
\* of query_params; with query_params absent or empty the URL has no '?'.
C18_QueryOnlyWhenNonEmpty ==
    (CallsService /\ cur.reqs # << >>) =>
        LET url == cur.reqs[1].url
            pairs == Entries(cur.inv.args.query_params)
        IN  IF pairs = << >>
            THEN "?" \notin Range(url)
            ELSE \E i \in DOMAIN url :
                    /\ url[i] = "?"
                    /\ SubSeq(url, i + 1, Len(url)) = URLSearchParams(pairs)

\* C19: the URL of a call_service request is, before the substitution of
\* placeholders, the configured base URL followed by "/services/", the
\* service name and the operation ("/" when there is none), so that the
\* segment zosConnect of the documented base URL appears once.
C19_UrlIsBasePlusServices ==
    (CallsService /\ cur.reqs # << >>
       /\ cur.inv.args.path_params = << >> /\ cur.inv.args.query_params = << >>) =>
        cur.reqs[1].url = << env.ZOS_CONNECT_URL, "/services/", cur.inv.args.service_name >>
                          \o Operation(cur.inv.args)

(***************************************************************************)
(* Properties of the Key Protect client handle                             *)
(***************************************************************************)
\* the step starts, in c, the handler of a key_protect_* invocation
StartsKeyProtect(c, cNext) ==
    c.pc = "idle" /\ cNext.pc # "idle" /\ startsWith(cNext.inv.name, "key_protect_")

\* C15: with tool calls interleaved at their awaits, the Key Protect client
\* is constructed at most once: there is none at the start, one is
\* constructed only in a step that starts a key_protect_* invocation, the
\* handle names the one construction, and once set it never changes.
C15_ConstructedOnce ==
    /\ keyProtectClient = 0 /\ constructed = 0
    /\ [](constructed <= 1 /\ keyProtectClient = constructed)
    /\ [][/\ constructed' # constructed =>
                \/ StartsKeyProtect(cur, cur')
                \/ StartsKeyProtect(other, other')
          /\ keyProtectClient # 0 => keyProtectClient' = keyProtectClient]_vars

\* two key_protect_* calls suspended at their awaits, one client constructed
C15_Witness ==
    /\ cur.pc = "await" /\ cur.reqs[1].backend = "kp"
    /\ other.pc = "await" /\ other.reqs[1].backend = "kp"
    /\ constructed = 1 /\ keyProtectClient = 1

\* C20: an invocation reaches only the backend that owns its name: the
\* requests of a key_protect_* invocation go to Key Protect, those of a
\* zos_connect_* invocation go to z/OS Connect, any other name issues none,
\* and a step of an invocation that is not key_protect_* leaves the Key
\* Protect client, the count of its constructions and the keys unchanged.
C20_OneBackend ==
    /\ [](\A i \in DOMAIN cur.reqs :
            cur.reqs[i].backend =
                (IF startsWith(cur.inv.name, "key_protect_") THEN "kp"
                 ELSE IF startsWith(cur.inv.name, "zos_connect_") THEN "zos"
                 ELSE "none"))
    /\ [][(cur' # cur /\ Called' /\ ~startsWith(cur'.inv.name, "key_protect_")) =>
             /\ keyProtectClient' = keyProtectClient
             /\ constructed' = constructed
             /\ keys' = keys]_vars

\* a z/OS Connect call answered while Key Protect is configured and its
\* client was never constructed
C20_Witness ==
    /\ KpConfigured(env) /\ ZosConfigured(env)
    /\ Returned /\ FetchResolved /\ cur.resp.status = "200"
    /\ cur.inv.name = "zos_connect_call_service"
    /\ keyProtectClient = 0 /\ constructed = 0

====
